---------------------------- MODULE Spec2Model ----------------------------
(* A model of grelu.data.utils (src/src/grelu/data/utils.py): the four       *)
(* helpers _check_multiclass, _create_task_data, get_chromosomes and         *)
(* _tile_positions.  Each helper is an operator computed the way the Python  *)
(* computes it; each has a specification that draws its arguments from       *)
(* bounded sets and applies it.  get_chromosomes additionally gets a heap of *)
(* list objects, so that aliasing between returned lists can be observed.    *)
EXTENDS Integers, Sequences, FiniteSets, TLC

VARIABLES
    args,   \* the arguments of the call being made / last made
    pc,     \* "call" before the helper ran, "done" after; "idle"/"returned"/"mutated" for the caller of get_chromosomes
    ret,    \* the outcome of the call: a returned value or a raised exception
    heap,   \* list objects created by get_chromosomes, by object id (1..Len(heap))
    held,   \* ids of the lists returned by shortcut calls, in call order (the caller keeps them)
    steps   \* number of caller steps taken (calls and mutations of held lists)

vars == <<args, pc, ret, heap, held, steps>>

-----------------------------------------------------------------------------
(* Bounds of the model *)

MaxSeqLen == 20
MaxTileLen == 5
MaxStride == 5
MaxProtect == 4
NegArgs == 1
MaxTasks == 4
MaxCols == 3
MaxSteps == 4
MaxMutIndex == 2

-----------------------------------------------------------------------------
(* Python values *)

\* Optional[int]: None is the empty tuple, a present value n is <<n>>.
None == <<>>

Some(n) == <<n>>

\* A local variable that was never assigned (protect_start when the if-branch is skipped).
Unbound == <<>>

\* The outcome "raise exc".
Raise(exc) == [kind |-> "raise", exc |-> exc]

\* The outcome "return positions".
ReturnPositions(positions) ==
    [kind |-> "positions", positions |-> positions]

\* The outcome "return positions, distances".
ReturnPair(positions, distances) ==
    [kind |-> "pair", positions |-> positions, distances |-> distances]

\* The outcome "return b" of a predicate.
ReturnBool(b) == [kind |-> "bool", value |-> b]

\* The state of ret before any call returned.
NoReturn == [kind |-> "none"]

\* The state of args before any call was made.
NoArgs == [kind |-> "none"]

\* len(range(start, stop, step)) for step # 0.
RangeLen(start, stop, step) ==
    IF step > 0
    THEN IF stop > start THEN (stop - start + step - 1) \div step ELSE 0
    ELSE IF stop < start THEN (start - stop - step - 1) \div (0 - step) ELSE 0

\* list(range(start, stop, step)) for step # 0.
PyRange(start, stop, step) ==
    [i \in 1..RangeLen(start, stop, step) |-> start + (i - 1) * step]

\* int(np.floor(a / 2 - b / 2)): both quotients are exact multiples of one half,
\* their difference is (a - b) halves, and floor rounds towards minus infinity.
FloorOfHalves(a, b) == (a - b) \div 2

-----------------------------------------------------------------------------
(* _tile_positions *)

\* Mutation of max_pos: the bound taken one too far, so the last tile overruns the sequence.
max_pos_overrun(seq_len, tile_len) == seq_len - tile_len + 2

max_pos(seq_len, tile_len) == seq_len - tile_len + 1

protect_start(seq_len, protect_center) ==
    IF protect_center # None
    THEN Some(FloorOfHalves(seq_len, protect_center[1]))
    ELSE Unbound

protect_end(seq_len, protect_center) ==
    protect_start(seq_len, protect_center)[1] + protect_center[1]

\* Mutation of excl_start: the "+ 1" forgotten, so a tile ending right before the
\* protected region is dropped too.
excl_start_wide(seq_len, tile_len, protect_center) ==
    protect_start(seq_len, protect_center)[1] - tile_len

excl_start(seq_len, tile_len, protect_center) ==
    protect_start(seq_len, protect_center)[1] - tile_len + 1

\* Mutation of excl: protect_end taken as inclusive.
excl_inclusive_end(seq_len, tile_len, protect_center) ==
    IF protect_center # None
    THEN {x \in excl_start(seq_len, tile_len, protect_center)
                  .. protect_end(seq_len, protect_center) : TRUE}
    ELSE {}

\* excl, as the set of the integers x with "x in excl".
excl(seq_len, tile_len, protect_center) ==
    IF protect_center # None
    THEN {x \in excl_start(seq_len, tile_len, protect_center)
                  .. (protect_end(seq_len, protect_center) - 1) : TRUE}
    ELSE {}

\* [x for x in range(0, max_pos, stride) if x not in excl]
Positions(seq_len, tile_len, stride, protect_center) ==
    LET Keep(x) == x \notin excl(seq_len, tile_len, protect_center)
    IN  SelectSeq(PyRange(0, max_pos(seq_len, tile_len), stride), Keep)

\* Mutation of Distances: the sign of the distance flipped.
DistancesFlipped(positions, start) ==
    [i \in 1..Len(positions) |-> start - positions[i]]

\* [x - protect_start for x in positions], protect_start bound.
Distances(positions, start) ==
    [i \in 1..Len(positions) |-> positions[i] - start]

tile_positions(seq_len, tile_len, stride, protect_center, return_distances) ==
    IF stride = 0
    THEN Raise("ValueError")      \* range() arg 3 must not be zero
    ELSE LET positions == Positions(seq_len, tile_len, stride, protect_center)
             start == protect_start(seq_len, protect_center)
         IN  IF return_distances
             THEN IF positions # <<>> /\ start = Unbound
                  THEN Raise("NameError")   \* protect_start read before assignment
                  ELSE ReturnPair(positions,
                                  IF positions = <<>> THEN <<>>
                                  ELSE Distances(positions, start[1]))
             ELSE ReturnPositions(positions)

TileArgs ==
    [seq_len : (0 - NegArgs)..MaxSeqLen,
     tile_len : (0 - NegArgs)..MaxTileLen,
     stride : (0 - NegArgs)..MaxStride,
     protect_center : {None} \cup {Some(n) : n \in (0 - NegArgs)..MaxProtect},
     return_distances : BOOLEAN]

InitTile ==
    /\ args \in TileArgs
    /\ pc = "call"
    /\ ret = NoReturn
    /\ heap = <<>>
    /\ held = <<>>
    /\ steps = 0

TileCall ==
    /\ pc = "call"
    /\ ret' = tile_positions(args.seq_len, args.tile_len, args.stride,
                             args.protect_center, args.return_distances)
    /\ pc' = "done"
    /\ UNCHANGED <<args, heap, held, steps>>

NextTile == TileCall

SpecTile == InitTile /\ [][NextTile]_vars

-----------------------------------------------------------------------------
(* Properties of _tile_positions *)

\* seq_len >= 0, tile_len >= 1, stride >= 1.
ValidShape == args.seq_len >= 0 /\ args.tile_len >= 1 /\ args.stride >= 1

\* Valid arguments: a valid shape and protect_center absent or non-negative.
ValidTileArgs ==
    ValidShape /\ (args.protect_center = None \/ args.protect_center[1] >= 0)

\* The call returned (positions, or positions and distances).
TileReturned == pc = "done" /\ ret.kind \in {"positions", "pair"}

\* The set of the returned positions.
Returned == {ret.positions[i] : i \in 1..Len(ret.positions)}

\* The candidates 0, stride, 2*stride, ... below seq_len - tile_len + 1 (valid shape).
Candidates ==
    {x \in 0..args.seq_len : x % args.stride = 0 /\ x < args.seq_len - args.tile_len + 1}

\* floor(seq_len/2 - protect_center/2): the integer s with 2s <= seq_len - protect_center < 2s + 2.
RefProtectStart ==
    LET d == args.seq_len - args.protect_center[1]
        m == (IF d >= 0 THEN d ELSE 0 - d) + 1
    IN  CHOOSE s \in (0 - m)..m : 2 * s <= d /\ d < 2 * s + 2

RefProtectEnd == RefProtectStart + args.protect_center[1]

\* x lies in the exclusion range [protect_start - tile_len + 1, protect_end).
InExclusion(x) ==
    /\ args.protect_center # None
    /\ RefProtectStart - args.tile_len + 1 <= x
    /\ x < RefProtectEnd

\* The tile [x, x + tile_len) shares a coordinate with [protect_start, protect_end).
Overlaps(x) ==
    (x..(x + args.tile_len - 1)) \cap (RefProtectStart..(RefProtectEnd - 1)) # {}

\* C1: for valid arguments every returned position p satisfies 0 <= p < max_pos,
\* with max_pos = seq_len - tile_len + 1 (so p + tile_len <= seq_len), and p % stride = 0.
C1_PositionsWithinBounds ==
    (TileReturned /\ ValidTileArgs) =>
        \A i \in 1..Len(ret.positions) :
            LET p == ret.positions[i]
            IN  /\ 0 <= p
                /\ p < args.seq_len - args.tile_len + 1
                /\ p + args.tile_len <= args.seq_len
                /\ p % args.stride = 0

\* C1 witness: a valid call with a protected center returned several positions,
\* the last of them the last start at which a tile still fits.
C1_Witness ==
    /\ TileReturned /\ ValidTileArgs
    /\ args.protect_center # None
    /\ args.stride >= 2
    /\ Len(ret.positions) >= 2
    /\ ret.positions[Len(ret.positions)] + args.tile_len = args.seq_len

\* C2 as stated: for every provided protect_center >= 0 (0 included) the dropped
\* candidates are those of the exclusion range and are exactly the candidates whose
\* tile overlaps the protected region.
C2_ExcludedIffOverlaps_AsStated ==
    (TileReturned /\ ValidTileArgs /\ args.protect_center # None) =>
        /\ \A x \in Returned : ~Overlaps(x)
        /\ \A x \in Candidates \ Returned : InExclusion(x) /\ Overlaps(x)

\* C2, amended: for a provided protect_center >= 0 no returned tile overlaps the
\* protected region and the dropped candidates are exactly those of the exclusion
\* range; for protect_center >= 1 they are exactly the candidates whose tile overlaps
\* the region, while for protect_center = 0 (an empty region) the dropped candidates
\* overlap nothing: they are the tiles that straddle protect_start.
C2_ExcludedIffOverlaps ==
    (TileReturned /\ ValidTileArgs /\ args.protect_center # None) =>
        /\ \A x \in Returned : ~Overlaps(x) /\ ~InExclusion(x)
        /\ \A x \in Candidates \ Returned : InExclusion(x)
        /\ args.protect_center[1] >= 1 =>
               \A x \in Candidates \ Returned : Overlaps(x)
        /\ args.protect_center[1] = 0 =>
               \A x \in Candidates \ Returned :
                   ~Overlaps(x) /\ x < RefProtectStart /\ RefProtectStart < x + args.tile_len

\* C2 witness: with protect_center >= 1 some candidates were dropped, and tiles
\* touching the region on either side were kept.
C2_Witness ==
    /\ TileReturned /\ ValidTileArgs /\ args.protect_center # None
    /\ args.protect_center[1] >= 1
    /\ Candidates \ Returned # {}
    /\ \E x \in Returned : x + args.tile_len = RefProtectStart
    /\ \E x \in Returned : x = RefProtectEnd

\* C3: for valid arguments the returned list is, ascending and without omissions or
\* duplicates, the list of all k*stride < seq_len - tile_len + 1 outside the exclusion
\* range (nothing excluded without protect_center); the two worked examples included.
C3_PositionsEqualReference ==
    /\ (TileReturned /\ ValidTileArgs) =>
           /\ Returned = {x \in Candidates : ~InExclusion(x)}
           /\ \A i \in 1..Len(ret.positions) : \A j \in 1..Len(ret.positions) :
                  i < j => ret.positions[i] < ret.positions[j]
    /\ (pc = "done" /\ args.seq_len = 20 /\ args.tile_len = 5 /\ args.stride = 5
           /\ args.protect_center = None /\ ~args.return_distances) =>
           ret = ReturnPositions(<<0, 5, 10, 15>>)
    /\ (pc = "done" /\ args.seq_len = 20 /\ args.tile_len = 5 /\ args.stride = 1
           /\ args.protect_center = Some(4) /\ ~args.return_distances) =>
           ret = ReturnPositions(<<0, 1, 2, 3, 12, 13, 14, 15>>)

\* C3 witness: the second worked example (seq_len 20, tile_len 5, stride 1,
\* protect_center 4) has returned, with positions on both sides of the center.
C3_Witness ==
    /\ TileReturned
    /\ args.seq_len = 20 /\ args.tile_len = 5 /\ args.stride = 1
    /\ args.protect_center = Some(4)
    /\ Len(ret.positions) = 8

\* C4: with return_distances set and protect_center provided the call returns a pair
\* of equally long sequences with distances[i] = positions[i] - protect_start, the
\* positions being those of the call without return_distances.
C4_DistancesParallel ==
    (pc = "done" /\ ValidShape /\ args.return_distances /\ args.protect_center # None) =>
        /\ ret.kind = "pair"
        /\ Len(ret.distances) = Len(ret.positions)
        /\ \A i \in 1..Len(ret.positions) :
               ret.distances[i] = ret.positions[i] - RefProtectStart
        /\ ret.positions =
               tile_positions(args.seq_len, args.tile_len, args.stride,
                              args.protect_center, FALSE).positions

\* C4 witness: a pair was returned with tiles before and after protect_start.
C4_Witness ==
    /\ pc = "done" /\ ValidShape /\ args.return_distances /\ args.protect_center # None
    /\ ret.kind = "pair"
    /\ \E i \in 1..Len(ret.distances) : ret.distances[i] < 0
    /\ \E i \in 1..Len(ret.distances) : ret.distances[i] > 0

\* C5 as stated: return_distances without protect_center never returns, it is
\* rejected (here for the valid shapes alone, the empty position list included).
C5_DistancesWithoutCenterRejected ==
    (pc = "done" /\ ValidShape /\ args.return_distances /\ args.protect_center = None) =>
        ret.kind = "raise"

\* C6 as stated: a call with stride <= 0, tile_len <= 0 or seq_len < 0 ends in an
\* error and returns no position list.
C6_InvalidNumbersRejected ==
    (pc = "done" /\ (args.stride <= 0 \/ args.tile_len <= 0 \/ args.seq_len < 0)) =>
        ret.kind = "raise"

-----------------------------------------------------------------------------
(* _check_multiclass *)

\* The value kinds a column can have.
Dtypes == {"string", "categorical", "numeric", "boolean", "datetime"}

\* df.shape[1]: the number of columns.
shape1(df) == Len(df.columns)

\* df.iloc[:, i]: the i-th column (0-based); out of bounds it raises IndexError.
iloc(df, i) ==
    IF i < Len(df.columns)
    THEN [kind |-> "series", dtype |-> df.columns[i + 1]]
    ELSE Raise("IndexError")

is_string_dtype(col) == col.dtype = "string"

is_categorical_dtype(col) == col.dtype = "categorical"

\* Mutation of check_multiclass: the column is fetched before the column count is
\* tested (no short circuit), so a table without columns fails.
check_multiclass_eager(df) ==
    LET col == iloc(df, 0)
    IN  IF col.kind = "raise"
        THEN col
        ELSE ReturnBool(shape1(df) = 1
                        /\ (is_string_dtype(col) \/ is_categorical_dtype(col)))

\* (df.shape[1] == 1) and (is_string_dtype(...) or is_categorical_dtype(...));
\* "and" evaluates its right operand only when the left one is true.
check_multiclass(df) ==
    IF shape1(df) = 1
    THEN LET col == iloc(df, 0)
         IN  IF col.kind = "raise"
             THEN col
             ELSE ReturnBool(is_string_dtype(col) \/ is_categorical_dtype(col))
    ELSE ReturnBool(FALSE)

LabelArgs == [df : {[columns |-> c] : c \in UNION {[1..n -> Dtypes] : n \in 0..MaxCols}}]

InitLabels ==
    /\ args \in LabelArgs
    /\ pc = "call"
    /\ ret = NoReturn
    /\ heap = <<>>
    /\ held = <<>>
    /\ steps = 0

LabelsCall ==
    /\ pc = "call"
    /\ ret' = check_multiclass(args.df)
    /\ pc' = "done"
    /\ UNCHANGED <<args, heap, held, steps>>

NextLabels == LabelsCall

SpecLabels == InitLabels /\ [][NextLabels]_vars

\* C9: _check_multiclass returns true iff the table has exactly one column and that
\* column's value kind is string or categorical; for every other table (no column,
\* two or more columns, one column of another kind) it returns false, never an error.
C9_MulticlassIffSingleTextColumn ==
    pc = "done" =>
        /\ ret.kind = "bool"
        /\ ret.value <=> (/\ Cardinality(DOMAIN args.df.columns) = 1
                          /\ \A i \in DOMAIN args.df.columns :
                                 args.df.columns[i] \in {"string", "categorical"})

\* C9 witness: the call on a table without columns returned false.
C9_Witness ==
    /\ pc = "done"
    /\ args.df.columns = <<>>
    /\ ret = ReturnBool(FALSE)

-----------------------------------------------------------------------------
(* _create_task_data *)

\* set(task_names)
PySet(seq) == {seq[i] : i \in 1..Len(seq)}

\* pd.DataFrame(index=task_names): no columns, the row index is the given sequence.
DataFrame(index) == [kind |-> "table", index |-> index, columns |-> <<>>]

\* Mutation of create_task_data: the uniqueness assertion left out.
create_task_data_unchecked(task_names) == DataFrame(task_names)

create_task_data(task_names) ==
    IF Cardinality(PySet(task_names)) = Len(task_names)
    THEN DataFrame(task_names)
    ELSE Raise("AssertionError")      \* "Task names are not unique"

TaskNames == {"a", "A", "b"}

TaskArgs == [task_names : UNION {[1..n -> TaskNames] : n \in 0..MaxTasks}]

InitTask ==
    /\ args \in TaskArgs
    /\ pc = "call"
    /\ ret = NoReturn
    /\ heap = <<>>
    /\ held = <<>>
    /\ steps = 0

TaskCall ==
    /\ pc = "call"
    /\ ret' = create_task_data(args.task_names)
    /\ pc' = "done"
    /\ UNCHANGED <<args, heap, held, steps>>

NextTask == TaskCall

SpecTask == InitTask /\ [][NextTask]_vars

\* Some name occurs at two places of the sequence.
HasDuplicate(names) ==
    \E i \in 1..Len(names) : \E j \in 1..Len(names) : i < j /\ names[i] = names[j]

\* C7: _create_task_data fails (and returns no table) whenever the task names hold a
\* duplicate; for every duplicate-free sequence, the empty one included, it returns a
\* table without columns whose row index is the input sequence, names and order kept.
C7_DuplicatesRejectedIndexKept ==
    pc = "done" =>
        /\ HasDuplicate(args.task_names) => ret = Raise("AssertionError")
        /\ ~HasDuplicate(args.task_names) =>
               /\ ret.kind = "table"
               /\ ret.index = args.task_names
               /\ ret.columns = <<>>

\* C7 witness: the names a, b, a were rejected.
C7_Witness ==
    /\ pc = "done"
    /\ args.task_names = <<"a", "b", "a">>
    /\ ret.kind = "raise"

-----------------------------------------------------------------------------
(* get_chromosomes *)

\* The stop of range(1, 23).
AutosomeStop == 23

\* A str argument and a list argument.
Str(v) == [kind |-> "str", val |-> v]

List(v) == [kind |-> "list", val |-> v]

\* isinstance(chroms, str)
isinstance_str(chroms) == chroms.kind = "str"

\* "chr" + str(x)
Chr(x) == "chr" \o ToString(x)

\* Mutation of ChrRange: the stop of the range taken as inclusive.
ChrRangeInclusive(start, stop) ==
    [i \in 1..RangeLen(start, stop + 1, 1) |-> Chr(PyRange(start, stop + 1, 1)[i])]

\* ["chr" + str(x) for x in range(start, stop)]
ChrRange(start, stop) ==
    [i \in 1..RangeLen(start, stop, 1) |-> Chr(PyRange(start, stop, 1)[i])]

\* The three values of the chrom_shortcuts dict literal, as written.
shortcut_autosomes == ChrRange(1, AutosomeStop)

shortcut_autosomesX == ChrRange(1, AutosomeStop) \o <<"chrX">>

shortcut_autosomesXY == ChrRange(1, AutosomeStop) \o <<"chrX", "chrY">>

\* Mutation of chrom_shortcuts: the dict built once and kept (a module-level
\* table), so that every call hands out the same three list objects.
chrom_shortcuts_shared(h) ==
    IF Len(h) >= 3
    THEN [heap |-> h,
          table |-> [autosomes |-> 1, autosomesX |-> 2, autosomesXY |-> 3]]
    ELSE [heap |-> h \o <<shortcut_autosomes, shortcut_autosomesX, shortcut_autosomesXY>>,
          table |-> [autosomes |-> Len(h) + 1, autosomesX |-> Len(h) + 2,
                     autosomesXY |-> Len(h) + 3]]

\* chrom_shortcuts = {...}: evaluated on every call, it creates three new list
\* objects in the heap h; the dict maps each shortcut name to the id of its list.
chrom_shortcuts(h) ==
    [heap |-> h \o <<shortcut_autosomes, shortcut_autosomesX, shortcut_autosomesXY>>,
     table |-> [autosomes |-> Len(h) + 1, autosomesX |-> Len(h) + 2,
                autosomesXY |-> Len(h) + 3]]

\* The call on heap h: the heap afterwards and the returned value, either a reference
\* to a list object of the dict (id) or the argument itself.
get_chromosomes(h, chroms) ==
    LET built == chrom_shortcuts(h)
    IN  IF isinstance_str(chroms) /\ chroms.val \in DOMAIN built.table
        THEN [heap |-> built.heap, kind |-> "ref", id |-> built.table[chroms.val]]
        ELSE [heap |-> built.heap, kind |-> "arg", id |-> 0]

\* The arguments tried: the three shortcuts, other strings, and lists (one empty, two
\* whose elements are shortcut names).
ChromInputs ==
    {Str(v) : v \in {"autosomes", "autosomesX", "autosomesXY", "chr1", "Autosomes",
                     "autosomesY"}}
    \cup {List(v) : v \in {<<>>, <<"chr3", "chr7">>, <<"autosomes">>,
                           <<"autosomesXY", "chrX">>}}

\* Names a caller writes into a list it holds.
CallerNames == {"chrM"}

\* Indexes (1-based) of a list that the caller removes or overwrites: the first
\* MaxMutIndex ones and the last one.
MutIndexes(l) == {i \in 1..Len(l) : i <= MaxMutIndex \/ i = Len(l)}

\* del l[i - 1]
RemoveAt(l, i) == [j \in 1..(Len(l) - 1) |-> IF j < i THEN l[j] ELSE l[j + 1]]

InitChrom ==
    /\ args = NoArgs
    /\ pc = "idle"
    /\ ret = NoReturn
    /\ heap = <<>>
    /\ held = <<>>
    /\ steps = 0

\* The caller calls get_chromosomes(chroms) and keeps the list a shortcut call returns.
ChromCall ==
    \E chroms \in ChromInputs :
        LET r == get_chromosomes(heap, chroms)
        IN  /\ steps < MaxSteps
            /\ args' = [chroms |-> chroms]
            /\ heap' = r.heap
            /\ ret' = IF r.kind = "ref"
                      THEN [kind |-> "ref", id |-> r.id, val |-> r.heap[r.id]]
                      ELSE [kind |-> "arg", val |-> chroms]
            /\ held' = IF r.kind = "ref" THEN Append(held, r.id) ELSE held
            /\ pc' = "returned"
            /\ steps' = steps + 1

\* The caller appends to a list it was handed.
CallerAppend ==
    \E k \in 1..Len(held) : \E name \in CallerNames :
        /\ steps < MaxSteps
        /\ heap' = [heap EXCEPT ![held[k]] = Append(@, name)]
        /\ pc' = "mutated"
        /\ steps' = steps + 1
        /\ UNCHANGED <<args, ret, held>>

\* The caller removes an element of a list it was handed.
CallerRemove ==
    \E k \in 1..Len(held) : \E i \in MutIndexes(heap[held[k]]) :
        /\ steps < MaxSteps
        /\ heap' = [heap EXCEPT ![held[k]] = RemoveAt(@, i)]
        /\ pc' = "mutated"
        /\ steps' = steps + 1
        /\ UNCHANGED <<args, ret, held>>

\* The caller overwrites an element of a list it was handed.
CallerOverwrite ==
    \E k \in 1..Len(held) : \E i \in MutIndexes(heap[held[k]]) : \E name \in CallerNames :
        /\ steps < MaxSteps
        /\ heap' = [heap EXCEPT ![held[k]][i] = name]
        /\ pc' = "mutated"
        /\ steps' = steps + 1
        /\ UNCHANGED <<args, ret, held>>

NextChrom == ChromCall \/ CallerAppend \/ CallerRemove \/ CallerOverwrite

SpecChrom == InitChrom /\ [][NextChrom]_vars

-----------------------------------------------------------------------------
(* Properties of get_chromosomes *)

\* chr1 .. chr22, written out.
Chr1To22 ==
    <<"chr1", "chr2", "chr3", "chr4", "chr5", "chr6", "chr7", "chr8", "chr9", "chr10",
      "chr11", "chr12", "chr13", "chr14", "chr15", "chr16", "chr17", "chr18", "chr19",
      "chr20", "chr21", "chr22">>

\* The expansion each shortcut stands for.
Canonical(token) ==
    CASE token = "autosomes" -> Chr1To22
      [] token = "autosomesX" -> Chr1To22 \o <<"chrX">>
      [] token = "autosomesXY" -> Chr1To22 \o <<"chrX", "chrY">>

Shortcuts == {"autosomes", "autosomesX", "autosomesXY"}

\* The last call's argument was one of the three shortcut strings.
ShortcutCall ==
    /\ args # NoArgs
    /\ args.chroms.kind = "str"
    /\ args.chroms.val \in Shortcuts

\* C8: get_chromosomes maps "autosomes" to chr1..chr22 in numeric order (22 entries),
\* "autosomesX" to those followed by chrX, "autosomesXY" to those followed by chrX,
\* chrY (24 entries); any other string and any sequence, even one of shortcut names,
\* is returned unchanged.
C8_ShortcutsExpandOthersPass ==
    pc = "returned" =>
        /\ ShortcutCall =>
               /\ ret.kind = "ref"
               /\ ret.val = Canonical(args.chroms.val)
               /\ Len(ret.val) = CASE args.chroms.val = "autosomes" -> 22
                                   [] args.chroms.val = "autosomesX" -> 23
                                   [] args.chroms.val = "autosomesXY" -> 24
        /\ ~ShortcutCall => ret = [kind |-> "arg", val |-> args.chroms]

\* C8 witness: get_chromosomes("autosomesXY") returned 24 names ending in chrX, chrY.
C8_Witness ==
    /\ pc = "returned"
    /\ args = [chroms |-> Str("autosomesXY")]
    /\ Len(ret.val) = 24
    /\ ret.val[23] = "chrX" /\ ret.val[24] = "chrY"

\* C10: whatever the caller did to the lists earlier shortcut calls returned, a
\* shortcut call returns the full canonical expansion (the call just made did, and a
\* call made now would), and no two shortcut calls returned the same list object.
C10_ExpansionsNotCorruptible ==
    /\ (pc = "returned" /\ ShortcutCall) =>
           /\ ret.val = Canonical(args.chroms.val)
           /\ \A k \in 1..(Len(held) - 1) : held[k] # ret.id
    /\ \A token \in Shortcuts :
           LET r == get_chromosomes(heap, Str(token))
           IN  r.kind = "ref" /\ r.heap[r.id] = Canonical(token)
    /\ \A j \in 1..Len(held) : \A k \in 1..Len(held) : j # k => held[j] # held[k]

\* C10 witness: a shortcut call has just returned although the list an earlier call
\* with the same shortcut returned had been changed by the caller.
C10_Witness ==
    /\ pc = "returned" /\ ShortcutCall
    /\ Len(held) >= 2
    /\ \E k \in 1..(Len(held) - 1) :
           /\ Len(heap[held[k]]) >= Len(Canonical(args.chroms.val)) - 1
           /\ heap[held[k]] # Canonical("autosomes")
           /\ heap[held[k]] # Canonical("autosomesX")
           /\ heap[held[k]] # Canonical("autosomesXY")

=============================================================================
